---- MODULE Spec2Model ----
(***************************************************************************)
(* Model of mininet/cli.py: the multi-network command-line interface.      *)
(*                                                                         *)
(* A Python string is a sequence of atoms.  An atom is a word that the     *)
(* program never looks inside (a node name, an address, a command word),   *)
(* the space " " or the newline "\n".  split, join and strip are computed  *)
(* on these sequences as Python computes them on characters.               *)
(***************************************************************************)
EXTENDS Integers, Sequences, FiniteSets, TLC

----------------------------------------------------------------------------
(* Bounds of the model *)

\* number of networks handed to the CLI (len(mininet))
NumNets == 2
\* number of lines in the script file "f"
MaxScriptLen == 2
\* chunks of output one command of a node may produce
MaxOut == 1
\* nodes that a previous session may have left waiting
MaxLeftWaiting == 1

----------------------------------------------------------------------------
(* Strings *)

SP == " "
NL == "\n"
\* Python's None, a value different from every string
None == << "<None>" >>

IsSpace(a) == a \in {SP, NL}

RECURSIVE lstrip(_)
lstrip(s) ==
    IF s # << >> /\ IsSpace(Head(s)) THEN lstrip(Tail(s)) ELSE s

RECURSIVE rstrip(_)
rstrip(s) ==
    IF s # << >> /\ IsSpace(s[Len(s)]) THEN rstrip(SubSeq(s, 1, Len(s) - 1)) ELSE s

\* str.strip()
strip(s) == rstrip(lstrip(s))

\* position, from k on, of the first atom of s that is in seps, Len(s)+1 if none
RECURSIVE FindFrom(_, _, _)
FindFrom(s, k, seps) ==
    IF k > Len(s) THEN k
    ELSE IF s[k] \in seps THEN k
    ELSE FindFrom(s, k + 1, seps)

\* str.split( ' ' ): split at every single space, empty pieces kept
RECURSIVE splitSp(_)
splitSp(s) ==
    LET k == FindFrom(s, 1, {SP})
    IN  IF k > Len(s) THEN << s >>
        ELSE << SubSeq(s, 1, k - 1) >> \o splitSp(SubSeq(s, k + 1, Len(s)))

\* str.split(): split at runs of whitespace, no empty pieces
RECURSIVE splitWs(_)
splitWs(s) ==
    LET t == lstrip(s)
        k == FindFrom(t, 1, {SP, NL})
    IN  IF t = << >> THEN << >>
        ELSE << SubSeq(t, 1, k - 1) >> \o splitWs(SubSeq(t, k, Len(t)))

\* ' '.join( list )
RECURSIVE joinSp(_)
joinSp(l) ==
    IF l = << >> THEN << >>
    ELSE IF Len(l) = 1 THEN l[1]
    ELSE l[1] \o << SP >> \o joinSp(Tail(l))

\* list.index( x ): position of the first element equal to x
RECURSIVE indexOf(_, _, _)
indexOf(l, x, k) ==
    IF l[k] = x THEN k ELSE indexOf(l, x, k + 1)

----------------------------------------------------------------------------
(* Networks, nodes and input *)

Nets == 0 .. (NumNets - 1)

H1 == << "h1" >>
H2 == << "h2" >>
\* a node whose name is the dotted address that h2 has in network 0
HA == << "10.0.0.2" >>
\* a node whose name is the selector of a built-in command
NODES == << "nodes" >>

\* the node sets a network may be built with
NameSets == { {H1, H2}, {H1, HA, NODES} }

\* the networks handed to the CLI: the two node sets in turn, either first
NodeMaps ==
    { [ i \in Nets |-> IF i % 2 = 0 THEN {H1, H2} ELSE {H1, HA, NODES} ],
      [ i \in Nets |-> IF i % 2 = 0 THEN {H1, HA, NODES} ELSE {H1, H2} ] }

\* the address that Intf.updateIP() reports for node n of network i
IPof(i, n) ==
    LET d == IF n = H1 THEN 1 ELSE IF n = H2 THEN 2 ELSE IF n = HA THEN 3 ELSE 4
    IN  << << << "10.0.0.1", "10.0.0.2", "10.0.0.3", "10.0.0.4" >>,
              << "10.0.1.1", "10.0.1.2", "10.0.1.3", "10.0.1.4" >>,
              << "10.0.2.1", "10.0.2.2", "10.0.2.3", "10.0.2.4" >> >>[i + 1][d] >>

\* word lists typed after the first word of a line
ArgLists ==
    { << >>, << << "ls" >> >>, << << "cd" >> >>, << << "ping" >>, H2 >>,
      << H2, H2 >>, << H2, HA >>, << H1, << >>, HA >> }

\* a line made of a first word and further words, one space between words
MkLine(first, words) == joinSp(<< first >> \o words)

NodeLines == { MkLine(f, a) : f \in {H1, H2, << "h9" >>}, a \in ArgLists }

BuiltinLines ==
    { << "exit" >>, << "quit" >>, << "nodes" >>, << "nodes", SP, "ls" >>, << >>,
      << "source" >>, << "source", SP, "f" >>, << "source", SP, "x" >>,
      << "noecho", SP, "h1", SP, "ls" >>, << "noecho", SP, "h9", SP, "ls" >>,
      << "noecho", SP, "h1" >> }

\* lines the operator may type at the prompt
ConsoleLines == NodeLines \cup BuiltinLines

\* lines a script file may hold, as readline() returns them
ScriptLines ==
    { << "exit", NL >>, << "h1", SP, "ls", NL >>, << "source", SP, "g", NL >> }

RECURSIVE SeqsUpTo(_, _)
SeqsUpTo(S, n) ==
    IF n = 0 THEN { << >> }
    ELSE LET R == SeqsUpTo(S, n - 1)
         IN  R \cup { Append(r, x) : r \in { q \in R : Len(q) = n - 1 }, x \in S }

Scripts == SeqsUpTo(ScriptLines, MaxScriptLen)

\* the files that exist: "f" holds a script, "g" holds two lines and sources
\* no file, so that the nesting of do_source ends
F == << "f" >>
G == << "g" >>
FileNames == { F, G }
GText == << << "h9", SP, "ls", NL >>, << "nodes", NL >> >>

----------------------------------------------------------------------------
(* State *)

VARIABLES
    nodemap,    \* self.nodemap: network index -> names of its nodes
    waiting,    \* node.waiting of every node <<index, name>>
    inputFile,  \* self.inputFile: None, a path, or an open file and its unread lines
    stack,      \* the running loops and handlers, outermost first
    pc,         \* where control is
    tty,        \* mode of the controlling terminal
    ev,         \* what the last step did to the outside world
    cur,        \* the node waitForNode waits for
    proc,       \* the command running on cur: output still to come, finished or not
    avail,      \* output of cur that is readable and not yet read
    keys,       \* stdin is readable: keys were typed and not all are read
    data,       \* waitForNode's local variable data: chunks read, not yet printed
    pulled,     \* chunks waitForNode has read from cur
    written,    \* chunks waitForNode has written to the console
    preMode,    \* mode of the terminal when waitForNode was entered
    fresh       \* no line has been dispatched yet

vars == << nodemap, waiting, inputFile, stack, pc, tty, ev, cur, proc,
           avail, keys, data, pulled, written, preMode, fresh >>

Nodes == { e \in Nets \X UNION NameSets : e[2] \in nodemap[e[1]] }

NoNode == << >>

Sane == [ icanon |-> TRUE, echo |-> TRUE ]

\* the values of self.inputFile
NoFile == [ kind |-> "none", name |-> None, unread |-> << >> ]
PathOf(n) == [ kind |-> "path", name |-> n, unread |-> << >> ]
OpenFile(n, text) == [ kind |-> "file", name |-> n, unread |-> text ]

\* an event: fields that do not apply keep these values
NoEv == [ type |-> "none", input |-> None, handler |-> "", line |-> None,
          node |-> NoNode, cmd |-> None,
          printPid |-> FALSE, wasWaiting |-> FALSE, refreshed |-> {},
          mode |-> Sane, pre |-> Sane, pulled |-> 0, written |-> 0 ]

----------------------------------------------------------------------------
(* Parsing and resolution *)

\* Cmd.parseline: the first word and the rest of the stripped line
parseline(line) ==
    LET l == strip(line)
        k == FindFrom(l, 1, {SP, NL})
    IN  IF l = << >> THEN [ cmd |-> None, args |-> None, line |-> l ]
        ELSE [ cmd |-> SubSeq(l, 1, k - 1),
               args |-> strip(SubSeq(l, k, Len(l))),
               line |-> l ]

\* the networks whose node map holds name
NetsWith(name) == { i \in Nets : name \in nodemap[i] }

\* Lookup without the break: the scan keeps the last match, not the first
LookupLast(name) ==
    LET S == NetsWith(name)
    IN  IF S = {} THEN -1 ELSE CHOOSE i \in S : \A j \in S : j <= i

\* for index in range( 0, len( self.nodemap ) ): if name in self.nodemap[ index ]
\* ... break: the first index whose map holds name, -1 if none
Lookup(name) ==
    LET S == NetsWith(name)
    IN  IF S = {} THEN -1 ELSE CHOOSE i \in S : \A j \in S : i <= j

\* the substitution loop of default, from position k of the list on:
\*   for arg in rest: ... rest[ rest.index( arg ) ] = ...updateIP()
\* r.rest is the list, r.refreshed the nodes whose updateIP was called
RECURSIVE SubstFrom(_, _)
SubstFrom(r, k) ==
    IF k > Len(r.rest) THEN r
    ELSE LET arg == r.rest[k]
             j == Lookup(arg)
         IN  IF j = -1 THEN SubstFrom(r, k + 1)
             ELSE SubstFrom(
                    [ rest |-> [ r.rest EXCEPT ![indexOf(r.rest, arg, 1)] = IPof(j, arg) ],
                      refreshed |-> r.refreshed \cup { << j, arg >> } ],
                    k + 1)

Substitute(rest) == SubstFrom([ rest |-> rest, refreshed |-> {} ], 1)

\* mininet.util.isShellBuiltin: the first word of the string is a shell built-in
ShellBuiltins == { << "cd" >>, << "echo" >> }

isShellBuiltin(s) == splitSp(s)[1] \in ShellBuiltins

\* node.sendCmd rejects a command for a node that is still waiting
SendFailed(node) == waiting[node]

----------------------------------------------------------------------------
(* Handlers.  A handler is computed from the line, the terminal mode t and   *)
(* self.inputFile inF; its result says how it ends:                          *)
(*   "ret"   it returns o.stop to the loop that called onecmd                *)
(*   "wait"  it sent a command to o.node and is inside waitForNode           *)
(*   "push"  do_source opened a file and is reading it                       *)
(*   "raise" the exception o.exc leaves it                                   *)

Outcome(k, stop, e, t, inF, node, frames, exc) ==
    [ k |-> k, stop |-> stop, ev |-> e, tty |-> t, inputFile |-> inF,
      node |-> node, frames |-> frames, exc |-> exc ]

Ret(stop, e, t, inF) == Outcome("ret", stop, e, t, inF, NoNode, << >>, "")

\* default without the return of lines 351-352: a line of one word is
\* looked up and sent like every other line
defaultNoReturn(line, t, inF, frames) ==
    LET p == parseline(line)
        a == IF p.args = None THEN << >> ELSE p.args
        args == IF a # << >> /\ a[Len(a)] = NL THEN SubSeq(a, 1, Len(a) - 1) ELSE a
        rest == splitSp(args)
        first == p.cmd
        index == Lookup(first)
        node == << index, first >>
        r == Substitute(rest)
        builtin == isShellBuiltin(first)
        sent == [ NoEv EXCEPT !.type = "sendCmd", !.handler = "default",
                              !.line = line, !.node = node,
                              !.cmd = joinSp(r.rest), !.printPid = ~builtin,
                              !.wasWaiting = waiting[node],
                              !.refreshed = r.refreshed ]
    IN  IF index = -1
        THEN Ret(FALSE, [ NoEv EXCEPT !.type = "unknown", !.handler = "default",
                                      !.line = line ], t, inF)
        ELSE IF SendFailed(node)
        THEN Outcome("raise", FALSE, sent, t, inF, node, << >>, "SendFailed")
        ELSE Outcome("wait", FALSE, sent, t, inF, node, frames, "")

\* CLI.default, called with the frames of the handlers that called it
default(line, t, inF, frames) ==
    LET p == parseline(line)
    IN  IF p.args = None \/ p.args = << >>
        THEN Ret(FALSE, [ NoEv EXCEPT !.type = "silent", !.handler = "default",
                                      !.line = line ], t, inF)
        ELSE
        LET args == IF p.args[Len(p.args)] = NL
                    THEN SubSeq(p.args, 1, Len(p.args) - 1) ELSE p.args
            rest == splitSp(args)
            first == p.cmd
            index == Lookup(first)
            node == << index, first >>
            r == Substitute(rest)
            builtin == isShellBuiltin(first)
            sent == [ NoEv EXCEPT !.type = "sendCmd", !.handler = "default",
                                  !.line = line, !.node = node,
                                  !.cmd = joinSp(r.rest), !.printPid = ~builtin,
                                  !.wasWaiting = waiting[node],
                                  !.refreshed = r.refreshed ]
        IN  IF index = -1
            THEN Ret(FALSE, [ NoEv EXCEPT !.type = "unknown", !.handler = "default",
                                          !.line = line ], t, inF)
            ELSE IF SendFailed(node)
            THEN Outcome("raise", FALSE, sent, t, inF, node, << >>, "SendFailed")
            ELSE Outcome("wait", FALSE, sent, t, inF, node, frames, "")

\* CLI.do_exit, CLI.do_quit
do_exit(line, t, inF) ==
    Ret(TRUE, [ NoEv EXCEPT !.type = "exit", !.handler = "do_exit", !.line = line ],
        t, inF)

\* CLI.do_EOF
do_EOF(line, t, inF) ==
    Ret(TRUE, [ NoEv EXCEPT !.type = "exit", !.handler = "do_EOF", !.line = line ],
        t, inF)

\* CLI.do_nodes
do_nodes(line, t, inF) ==
    Ret(FALSE, [ NoEv EXCEPT !.type = "output", !.handler = "do_nodes",
                             !.line = line ], t, inF)

\* CLI.do_noecho
do_noecho(line, t, inF) ==
    LET d == default(line, [ t EXCEPT !.echo = FALSE ], inF, << "noecho" >>)
        o == [ d EXCEPT !.ev.handler = "do_noecho" ]
    IN  IF o.k = "ret" THEN [ o EXCEPT !.tty.echo = TRUE ] ELSE o

\* CLI.do_source up to the loop; text is what the file named holds
do_source(line, t, inF, text) ==
    LET args == splitWs(line)
    IN  IF Len(args) # 1
        THEN Ret(FALSE, [ NoEv EXCEPT !.type = "usage", !.handler = "do_source",
                                      !.line = line ], t, inF)
        ELSE IF args[1] \notin FileNames
        THEN Ret(FALSE, [ NoEv EXCEPT !.type = "ioerror", !.handler = "do_source",
                                      !.line = line ], t, NoFile)
        ELSE Outcome("push", FALSE,
                     [ NoEv EXCEPT !.type = "open", !.handler = "do_source",
                                   !.line = line ],
                     t, OpenFile(args[1], text), NoNode, << >>, "")

\* onecmd with the nodes looked up before the built-ins: a line whose first
\* word names a node goes to default
onecmdNodeFirst(line, t, inF, text) ==
    LET p == parseline(line)
        arg == IF p.args = None THEN << >> ELSE p.args
        o == IF p.line = << >>
             THEN Ret(FALSE, [ NoEv EXCEPT !.handler = "emptyline" ], t, inF)
             ELSE IF NetsWith(p.cmd) # {} THEN default(p.line, t, inF, << >>)
             ELSE IF p.cmd \in { << "exit" >>, << "quit" >> } THEN do_exit(arg, t, inF)
             ELSE IF p.cmd = << "EOF" >> THEN do_EOF(arg, t, inF)
             ELSE IF p.cmd = << "nodes" >> THEN do_nodes(arg, t, inF)
             ELSE IF p.cmd = << "noecho" >> THEN do_noecho(arg, t, inF)
             ELSE IF p.cmd = << "source" >> THEN do_source(arg, t, inF, text)
             ELSE default(p.line, t, inF, << >>)
    IN  [ o EXCEPT !.ev.input = line ]

\* Cmd.onecmd: a built-in selector goes to its handler with the argument
\* line, an empty line does nothing, every other line goes to default
onecmd(line, t, inF, text) ==
    LET p == parseline(line)
        arg == IF p.args = None THEN << >> ELSE p.args
        o == IF p.line = << >>
             THEN Ret(FALSE, [ NoEv EXCEPT !.handler = "emptyline" ], t, inF)
             ELSE IF p.cmd \in { << "exit" >>, << "quit" >> } THEN do_exit(arg, t, inF)
             ELSE IF p.cmd = << "EOF" >> THEN do_EOF(arg, t, inF)
             ELSE IF p.cmd = << "nodes" >> THEN do_nodes(arg, t, inF)
             ELSE IF p.cmd = << "noecho" >> THEN do_noecho(arg, t, inF)
             ELSE IF p.cmd = << "source" >> THEN do_source(arg, t, inF, text)
             ELSE default(p.line, t, inF, << >>)
    IN  [ o EXCEPT !.ev.input = line ]

----------------------------------------------------------------------------
(* Control *)

Top(stk) == stk[Len(stk)]
Pop(stk) == SubSeq(stk, 1, Len(stk) - 1)

\* a handler returned stop to the loop on top of stk: cmdloop ends on a true
\* result, the loop of do_source drops the result, and with no loop left the
\* constructor returns
Resume(stk, stop) ==
    IF stk = << >> THEN pc' = "done" /\ stack' = << >>
    ELSE IF Top(stk) = "cmdloop" /\ stop THEN pc' = "done" /\ stack' = << >>
    ELSE pc' = "read" /\ stack' = stk

\* an exception leaves every handler of stk: the try of __init__ around
\* cmdloop catches KeyboardInterrupt and starts over, everything else, and
\* everything raised under the do_source of line 71, leaves the constructor
Caught(exc, stk) ==
    exc = "KeyboardInterrupt" /\ stk # << >> /\ stk[1] = "cmdloop"

Propagate(exc, stk) ==
    IF Caught(exc, stk) THEN pc' = "reconcile" /\ stack' = << >>
    ELSE pc' = "crashed" /\ stack' = << >>

\* the command sendCmd starts on a node
NewProc == [ togo |-> MaxOut, alive |-> TRUE ]
NoProc == [ togo |-> 0, alive |-> FALSE ]

\* Apply for a default without the break of line 379: the command goes to
\* the node of that name in every network
ApplyNoBreak(o, stk) ==
    /\ ev' = o.ev
    /\ tty' = o.tty
    /\ inputFile' = o.inputFile
    /\ UNCHANGED << nodemap, keys, preMode >>
    /\ CASE o.k = "ret" ->
              /\ Resume(stk, o.stop)
              /\ UNCHANGED << waiting, cur, proc, avail, data, pulled, written >>
         [] o.k = "push" ->
              /\ stack' = Append(stk, "source")
              /\ pc' = "read"
              /\ UNCHANGED << waiting, cur, proc, avail, data, pulled, written >>
         [] o.k = "raise" ->
              /\ Propagate(o.exc, stk)
              /\ UNCHANGED << waiting, cur, proc, avail, data, pulled, written >>
         [] o.k = "wait" ->
              /\ waiting' = [ e \in Nodes |-> waiting[e] \/ e[2] = o.node[2] ]
              /\ stack' = stk \o o.frames
              /\ pc' = "wf_setup"
              /\ cur' = o.node
              /\ proc' = NewProc
              /\ avail' = 0 /\ data' = 0 /\ pulled' = 0 /\ written' = 0

\* the state after a handler that ended as o, called from the loop on top of stk
Apply(o, stk) ==
    /\ ev' = o.ev
    /\ tty' = o.tty
    /\ inputFile' = o.inputFile
    /\ UNCHANGED << nodemap, keys, preMode >>
    /\ CASE o.k = "ret" ->
              /\ Resume(stk, o.stop)
              /\ UNCHANGED << waiting, cur, proc, avail, data, pulled, written >>
         [] o.k = "push" ->
              /\ stack' = Append(stk, "source")
              /\ pc' = "read"
              /\ UNCHANGED << waiting, cur, proc, avail, data, pulled, written >>
         [] o.k = "raise" ->
              /\ Propagate(o.exc, stk)
              /\ UNCHANGED << waiting, cur, proc, avail, data, pulled, written >>
         [] o.k = "wait" ->
              /\ waiting' = [ waiting EXCEPT ![o.node] = TRUE ]
              /\ stack' = stk \o o.frames
              /\ pc' = "wf_setup"
              /\ cur' = o.node
              /\ proc' = NewProc
              /\ avail' = 0 /\ data' = 0 /\ pulled' = 0 /\ written' = 0

\* isatty() is a generator function: calling it runs none of its body and
\* yields a generator object, which is true in every condition
isatty == TRUE

\* quietRun( 'stty ...' ) under if self.isatty()
stty(t, field, value) ==
    IF isatty THEN [ t EXCEPT ![field] = value ] ELSE t

InLoop == pc \in { "wf_poll", "wf_key", "wf_mon", "wf_out", "wf_chk" }
InWait == pc = "wf_setup" \/ InLoop

Init ==
    /\ nodemap \in NodeMaps
    /\ waiting \in { w \in [ Nodes -> BOOLEAN ] :
                       Cardinality({ e \in Nodes : w[e] }) <= MaxLeftWaiting }
    /\ inputFile \in { NoFile, PathOf(F) }
    /\ stack = << >>
    /\ pc = "init"
    /\ tty = Sane
    /\ ev = NoEv
    /\ cur = NoNode
    /\ proc = NoProc
    /\ avail = 0 /\ keys = FALSE /\ data = 0 /\ pulled = 0 /\ written = 0
    /\ preMode = Sane
    /\ fresh = TRUE

\* what the file a line names may hold: "f" any script, "g" its two lines
Texts(line) ==
    IF FindFrom(line, 1, {"f"}) <= Len(line) THEN Scripts ELSE { GText }

\* CLI.__init__ up to line 73: with a do_source and return; otherwise
\* enter the loop of line 73
Construct ==
    /\ pc = "init"
    /\ fresh' = fresh
    /\ IF inputFile.kind = "path"
       THEN \E text \in Scripts :
                Apply(do_source(inputFile.name, tty, inputFile, text), << >>)
       ELSE /\ pc' = "reconcile"
            /\ UNCHANGED << nodemap, waiting, inputFile, stack, tty, ev, cur,
                            proc, avail, keys, data, pulled, written, preMode >>

\* lines 76-80, one turn of while node.waiting for the first waiting node:
\* sendInt, then monitor, which reads the end marker or does not
ReconcileStep ==
    /\ pc = "reconcile"
    /\ \E e \in Nodes :
         /\ waiting[e]
         /\ \A d \in Nodes : waiting[d] => e[1] <= d[1]
         /\ \E w \in BOOLEAN : waiting' = [ waiting EXCEPT ![e] = w ]
         /\ ev' = [ NoEv EXCEPT !.type = "sendInt", !.node = e ]
    /\ UNCHANGED << nodemap, inputFile, stack, pc, tty, cur, proc, avail,
                    keys, data, pulled, written, preMode, fresh >>

\* lines 81-83: no node waits, stty sane, cmdloop starts
ReconcileDone ==
    /\ pc = "reconcile"
    /\ \A e \in Nodes : ~waiting[e]
    /\ tty' = IF isatty THEN Sane ELSE tty
    /\ stack' = << "cmdloop" >>
    /\ pc' = "read"
    /\ UNCHANGED << nodemap, waiting, inputFile, ev, cur, proc, avail,
                    keys, data, pulled, written, preMode, fresh >>

\* Cmd.cmdloop: one line from the console through onecmd
ConsoleRead ==
    /\ pc = "read"
    /\ Top(stack) = "cmdloop"
    /\ fresh' = FALSE
    /\ \E line \in ConsoleLines : \E text \in Texts(line) :
         LET o == onecmd(line, tty, inputFile, text)
         IN  Apply(o, stack)

\* Cmd.cmdloop at the end of the console input: the line 'EOF'
ConsoleEOF ==
    /\ pc = "read"
    /\ Top(stack) = "cmdloop"
    /\ fresh' = fresh
    /\ Apply(onecmd(<< "EOF" >>, tty, inputFile, << >>), stack)

\* the loop of do_source, lines 315-320: readline on self.inputFile, then
\* onecmd on a line that is not empty
SourceRead ==
    /\ pc = "read"
    /\ Top(stack) = "source"
    /\ inputFile.kind = "file"
    /\ inputFile.unread # << >>
    /\ fresh' = FALSE
    /\ \E text \in Texts(Head(inputFile.unread)) :
         LET inF == [ inputFile EXCEPT !.unread = Tail(@) ]
             o == onecmd(Head(inputFile.unread), tty, inF, text)
         IN  Apply(o, stack)

\* do_source at the end of the file: break, self.inputFile = None, return
SourceEOF ==
    /\ pc = "read"
    /\ Top(stack) = "source"
    /\ inputFile.kind = "file"
    /\ inputFile.unread = << >>
    /\ fresh' = fresh
    /\ Apply(Ret(FALSE, [ NoEv EXCEPT !.type = "eof" ], tty, NoFile), Pop(stack))

\* do_source resumed after a nested do_source set self.inputFile to None:
\* None.readline() raises AttributeError, which line 321 does not catch
SourceLost ==
    /\ pc = "read"
    /\ Top(stack) = "source"
    /\ inputFile.kind # "file"
    /\ fresh' = fresh
    /\ Apply(Outcome("raise", FALSE, [ NoEv EXCEPT !.type = "AttributeError" ], tty,
                     inputFile, NoNode, << >>, "AttributeError"), stack)

----------------------------------------------------------------------------
(* waitForNode *)

\* node.stdout is readable: output is there, or the end marker is
Readable == avail > 0 \/ (~proc.alive /\ waiting[cur])

\* lines 388-397: the pollers, and stty -icanon min 1 under if self.isatty()
WaitSetup ==
    /\ pc = "wf_setup"
    /\ preMode' = tty
    /\ tty' = stty(tty, "icanon", FALSE)
    /\ ev' = [ NoEv EXCEPT !.type = "stty", !.node = cur ]
    /\ pc' = "wf_poll"
    /\ UNCHANGED << nodemap, waiting, inputFile, stack, cur, proc,
                    avail, keys, data, pulled, written, fresh >>

\* line 400: bothPoller.poll() returns when stdin or node.stdout is readable
WaitPoll ==
    /\ pc = "wf_poll"
    /\ keys \/ Readable
    /\ ev' = [ NoEv EXCEPT !.type = "poll", !.node = cur ]
    /\ pc' = "wf_key"
    /\ UNCHANGED << nodemap, waiting, inputFile, stack, tty, cur, proc,
                    avail, keys, data, pulled, written, preMode, fresh >>

\* WaitKey with elif in place of the second if: an iteration that forwarded
\* a key does not look at the node's output
WaitKeyElse ==
    /\ pc = "wf_key"
    /\ keys' \in (IF keys THEN BOOLEAN ELSE { FALSE })
    /\ ev' = IF keys THEN [ NoEv EXCEPT !.type = "write", !.node = cur ] ELSE ev
    /\ pc' = IF keys THEN "wf_chk" ELSE "wf_mon"
    /\ UNCHANGED << nodemap, waiting, inputFile, stack, tty, cur, proc,
                    avail, data, pulled, written, preMode, fresh >>

\* lines 414-416: if stdin is readable, one key from stdin is written to the
\* node; more keys may be left
WaitKey ==
    /\ pc = "wf_key"
    /\ keys' \in (IF keys THEN BOOLEAN ELSE { FALSE })
    /\ ev' = IF keys THEN [ NoEv EXCEPT !.type = "write", !.node = cur ] ELSE ev
    /\ pc' = "wf_mon"
    /\ UNCHANGED << nodemap, waiting, inputFile, stack, tty, cur, proc,
                    avail, data, pulled, written, preMode, fresh >>

\* lines 418-419: data = node.monitor(); monitor reads what is there and
\* clears node.waiting when it reads the end marker
WaitMonitor ==
    /\ pc = "wf_mon"
    /\ IF Readable
       THEN /\ data' = avail
            /\ pulled' = pulled + avail
            /\ avail' = 0
            /\ waiting' = [ waiting EXCEPT ![cur] = proc.alive ]
            /\ pc' = "wf_out"
       ELSE /\ pc' = "wf_chk"
            /\ UNCHANGED << data, pulled, avail, waiting >>
    /\ UNCHANGED << nodemap, inputFile, stack, tty, ev, cur, proc, keys,
                    written, preMode, fresh >>

\* line 420: output( data )
WaitOutput ==
    /\ pc = "wf_out"
    /\ written' = written + data
    /\ data' = 0
    /\ pc' = "wf_chk"
    /\ UNCHANGED << nodemap, waiting, inputFile, stack, tty, ev, cur, proc,
                    avail, keys, pulled, preMode, fresh >>

\* the handlers that called default, innermost last, return after waitForNode:
\* do_noecho runs stty echo
RECURSIVE Unwind(_, _)
Unwind(stk, t) ==
    IF stk # << >> /\ Top(stk) = "noecho"
    THEN Unwind(Pop(stk), stty(t, "echo", TRUE))
    ELSE [ stack |-> stk, tty |-> t ]

\* waitForNode is left: its locals are gone, and what was typed ahead is
\* console input again
LeaveWait ==
    /\ cur' = NoNode /\ proc' = NoProc /\ preMode' = Sane
    /\ avail' = 0 /\ keys' = FALSE /\ data' = 0 /\ pulled' = 0 /\ written' = 0

\* lines 421-422 with the node still waiting: the next turn of the loop
WaitAgain ==
    /\ pc = "wf_chk"
    /\ waiting[cur]
    /\ pc' = "wf_poll"
    /\ UNCHANGED << nodemap, waiting, inputFile, stack, tty, ev, cur, proc,
                    avail, keys, data, pulled, written, preMode, fresh >>

\* lines 421-422 with the node done: break, waitForNode and default return
WaitDone ==
    /\ pc = "wf_chk"
    /\ ~waiting[cur]
    /\ LET u == Unwind(stack, tty)
       IN  /\ tty' = u.tty
           /\ Resume(u.stack, FALSE)
    /\ ev' = [ NoEv EXCEPT !.type = "waitDone", !.node = cur, !.mode = tty,
                            !.pre = preMode, !.pulled = pulled, !.written = written ]
    /\ LeaveWait
    /\ UNCHANGED << nodemap, waiting, inputFile, fresh >>

\* InterruptLoop with the try around the loop instead of inside it: the
\* interrupt leaves waitForNode
InterruptLoopEnds ==
    /\ InLoop
    /\ Propagate("KeyboardInterrupt", stack)
    /\ ev' = [ NoEv EXCEPT !.type = "Interrupt", !.node = cur ]
    /\ LeaveWait
    /\ UNCHANGED << nodemap, waiting, inputFile, tty, fresh >>

\* lines 423-424: KeyboardInterrupt inside the try of the loop: node.sendInt()
\* and the next turn of while True
InterruptLoop ==
    /\ InLoop
    /\ ev' = [ NoEv EXCEPT !.type = "sendInt", !.node = cur ]
    /\ pc' = "wf_poll"
    /\ UNCHANGED << nodemap, waiting, inputFile, stack, tty, cur, proc,
                    avail, keys, data, pulled, written, preMode, fresh >>

\* KeyboardInterrupt in waitForNode before the try, or while a loop waits
\* for its next line
InterruptOutside ==
    /\ pc \in { "wf_setup", "read" }
    /\ Propagate("KeyboardInterrupt", stack)
    /\ ev' = [ NoEv EXCEPT
                 !.type = IF Caught("KeyboardInterrupt", stack)
                          THEN "Interrupt" ELSE "KeyboardInterrupt",
                 !.node = cur,
                 !.wasWaiting = \E e \in Nodes : waiting[e] ]
    /\ LeaveWait
    /\ UNCHANGED << nodemap, waiting, inputFile, tty, fresh >>

\* lines 85-86: KeyboardInterrupt inside lines 76-82
InterruptReconcile ==
    /\ pc = "reconcile"
    /\ ev' = [ NoEv EXCEPT !.type = "Interrupt",
                            !.wasWaiting = \E e \in Nodes : waiting[e] ]
    /\ UNCHANGED << nodemap, waiting, inputFile, stack, pc, tty, cur, proc,
                    avail, keys, data, pulled, written, preMode, fresh >>

----------------------------------------------------------------------------
(* The node's command and the operator's keyboard *)

NodeOutput ==
    /\ InWait
    /\ proc.alive /\ proc.togo > 0
    /\ proc' = [ proc EXCEPT !.togo = @ - 1 ]
    /\ avail' = avail + 1
    /\ UNCHANGED << nodemap, waiting, inputFile, stack, pc, tty, ev, cur,
                    keys, data, pulled, written, preMode, fresh >>

NodeFinish ==
    /\ InWait
    /\ proc.alive
    /\ proc' = [ proc EXCEPT !.alive = FALSE ]
    /\ UNCHANGED << nodemap, waiting, inputFile, stack, pc, tty, ev, cur,
                    avail, keys, data, pulled, written, preMode, fresh >>

KeyTyped ==
    /\ InWait
    /\ ~keys
    /\ keys' = TRUE
    /\ UNCHANGED << nodemap, waiting, inputFile, stack, pc, tty, ev, cur,
                    proc, avail, data, pulled, written, preMode, fresh >>

----------------------------------------------------------------------------

Next ==
    \/ Construct
    \/ ReconcileStep
    \/ ReconcileDone
    \/ ConsoleRead
    \/ ConsoleEOF
    \/ SourceRead
    \/ SourceEOF
    \/ SourceLost
    \/ WaitSetup
    \/ WaitPoll
    \/ WaitKey
    \/ WaitMonitor
    \/ WaitOutput
    \/ WaitAgain
    \/ WaitDone
    \/ InterruptLoop
    \/ InterruptOutside
    \/ InterruptReconcile
    \/ NodeOutput
    \/ NodeFinish
    \/ KeyTyped

Spec == Init /\ [][Next]_vars

\* the statements of waitForNode: the one thread of the program runs them
\* whenever it is not blocked in poll()
WaitSteps ==
    \/ WaitSetup
    \/ WaitPoll
    \/ WaitKey
    \/ WaitMonitor
    \/ WaitOutput
    \/ WaitAgain
    \/ WaitDone

\* the program keeps running inside waitForNode; the node, the keyboard and
\* the interrupts are free to act or not
FairSpec == Spec /\ WF_vars(WaitSteps)

----------------------------------------------------------------------------
(* Properties *)

\* the first word of the line default was called with
FirstOf(line) == parseline(line).cmd

\* the words after the first, as default splits them
WordsOf(line) == splitSp(parseline(line).args)

\* the last step was a call of default
Dispatched == ev.type \in { "silent", "unknown", "sendCmd" }

\* C1: waiting(e) is false whenever sendCmd is called on e
C1_SendOnlyWhenNotWaiting ==
    ev.type = "sendCmd" => ~ev.wasWaiting

\* C2: in every start mode no node is waiting when the first line is about
\* to be read and dispatched
C2_NoneWaitingBeforeFirstLine ==
    (pc = "read" /\ fresh) => \A e \in Nodes : ~waiting[e]

C4_ModeRestored ==
    ev.type = "waitDone" => ev.mode = ev.pre

\* the command string the claim prescribes: every word that names a node is
\* replaced where it stands by the address of that node
PerPosition(line) ==
    LET w == WordsOf(line)
    IN  joinSp([ k \in 1 .. Len(w) |->
                   IF NetsWith(w[k]) # {}
                   THEN IPof(CHOOSE i \in NetsWith(w[k]) :
                               \A j \in NetsWith(w[k]) : i <= j, w[k])
                   ELSE w[k] ])

\* C5: the command sent is the argument words with node names replaced
\* position by position, joined by single spaces
C5_PerPositionSubstitution ==
    ev.type = "sendCmd" => ev.cmd = PerPosition(ev.line)

C7_UnknownReported ==
    (Dispatched /\ NetsWith(FirstOf(ev.line)) = {}) =>
        /\ ev.type = "unknown"
        /\ ev.refreshed = {}
        /\ pc = "read"

\* C8: once a line of a script returned the exit result, the loop that
\* reads lines has ended and the lines left in the script are never read
C8_ExitEndsScript ==
    (ev.type = "exit" /\ inputFile.unread # << >>) => pc = "done"

\* C9: when waitForNode returns, everything it read from the node has been
\* written to the console
C9_NoOutputLost ==
    ev.type = "waitDone" => ev.written = ev.pulled

\* C10: an interrupt received while no command is outstanding, at the
\* console or in a script, is reported and the loop goes on
C10_IdleInterruptReported ==
    (ev.type \in { "Interrupt", "KeyboardInterrupt" } /\ ev.node = NoNode
        /\ ~ev.wasWaiting) =>
        (ev.type = "Interrupt" /\ pc \notin { "done", "crashed" })

\* the last step reported the failure of one command: an unknown node, a bad
\* argument count, a file that cannot be read, a command sent to a waiting node
CommandFailed ==
    \/ ev.type \in { "unknown", "usage", "ioerror" }
    \/ ev.type = "sendCmd" /\ ev.wasWaiting

\* C11: after the failure of one command the loop goes on to the next line,
\* and the loop has ended only after an exit line or at the end of its input;
\* interrupts are left to C10
C11_FailureNeverEndsLoop ==
    /\ CommandFailed => pc = "read"
    /\ pc = "crashed" => ev.type \in { "Interrupt", "KeyboardInterrupt" }
    /\ pc = "done" => ev.type \in { "exit", "eof" }

\* the script files the CLI holds open: the code keeps one reference,
\* self.inputFile, and never calls close
OpenSources == IF inputFile.kind = "file" THEN { inputFile.name } ELSE {}

\* the running loops of do_source, outermost first
SourceLoops == { k \in 1 .. Len(stack) : stack[k] = "source" }

\* C12: at most one script file is open, and a loop of do_source that is
\* about to read its next line, also after a nested script has finished,
\* still has its script to read from
C12_OneScriptAndOuterResumes ==
    /\ Cardinality(OpenSources) <= 1
    /\ (pc = "read" /\ SourceLoops # {}) => inputFile.kind = "file"

\* C13: a command is sent with printPid true exactly when the command
\* string, the rewritten words joined by spaces, is not a shell built-in
C13_PrintPidFromCommandString ==
    ev.type = "sendCmd" => (ev.printPid <=> ~isShellBuiltin(ev.cmd))

\* the handler a selector is registered for, "default" for every other word
HandlerOf(sel) ==
    IF sel \in { << "exit" >>, << "quit" >> } THEN "do_exit"
    ELSE IF sel = << "EOF" >> THEN "do_EOF"
    ELSE IF sel = << "nodes" >> THEN "do_nodes"
    ELSE IF sel = << "noecho" >> THEN "do_noecho"
    ELSE IF sel = << "source" >> THEN "do_source"
    ELSE "default"

\* the last step gave a line that is not empty to onecmd
LineDispatched == ev.input # None /\ strip(ev.input) # << >>

\* C14: a line whose first word is a built-in selector goes to that built-in
\* with the argument line, also when a node has that name, and no command is
\* sent to that node; a line reaches default as its handler only when its
\* first word is no built-in selector
C14_BuiltinPrecedence ==
    LineDispatched =>
        /\ ev.handler = HandlerOf(FirstOf(ev.input))
        /\ HandlerOf(FirstOf(ev.input)) # "default" =>
              /\ ev.line = (IF parseline(ev.input).args = None THEN << >>
                            ELSE parseline(ev.input).args)
              /\ ev.node = NoNode \/ ev.node[2] # FirstOf(ev.input)

\* C14 witness: the line 'nodes ls' went to do_nodes while a network has a
\* node named 'nodes'
C14_Witness ==
    /\ LineDispatched
    /\ FirstOf(ev.input) = NODES
    /\ NetsWith(NODES) # {}
    /\ ev.handler = "do_nodes" /\ ev.type = "output" /\ ev.line = << "ls" >>

\* C15: when interrupts stop arriving at some time, a waitForNode whose node
\* has completed its command returns (or is left), whatever keys are typed:
\* it does not stay in poll() when nothing more is to come from the node
C15_WaitForNodeReturns ==
    (<>[][~(InterruptLoop \/ InterruptOutside)]_vars) =>
        ((InWait /\ ~proc.alive) ~> ~InWait)

\* C16: a turn of the loop of waitForNode that no interrupt cuts short runs
\* in this order: poll() returns with something readable; if stdin is
\* readable one key is written to the node; then, if the node's output is
\* readable, all of it is read and written to the console; then node.waiting
\* is tested; only then comes the next poll()
C16_IterationOrder ==
    [][ (InLoop /\ pc' # pc
           /\ ~(ev'.type = "sendInt" /\ ev' # ev /\ pc' = "wf_poll")) =>
          /\ pc = "wf_poll" => (pc' = "wf_key" /\ (keys \/ Readable))
          /\ pc = "wf_key" =>
                /\ pc' = "wf_mon"
                /\ keys => (ev'.type = "write" /\ ev'.node = cur)
                /\ ~keys => (ev' = ev /\ ~keys')
          /\ pc = "wf_mon" =>
                /\ Readable => /\ pc' = "wf_out"
                               /\ data' = avail /\ avail' = 0
                               /\ pulled' = pulled + avail
                /\ ~Readable => (pc' = "wf_chk" /\ pulled' = pulled)
          /\ pc = "wf_out" => (pc' = "wf_chk" /\ written' = written + data)
          /\ pc = "wf_chk" => (pc' = "wf_poll" \/ ~InLoop')
      ]_vars

\* C16 witness: in one turn a key was written to the node and then output of
\* the node was read, which the next statement writes to the console
C16_Witness ==
    pc = "wf_out" /\ ev.type = "write" /\ ev.node = cur /\ data > 0

\* do_noecho is running: it has called default and has not returned
InNoecho == \E k \in 1 .. Len(stack) : stack[k] = "noecho"

\* C17: whenever do_noecho is not running, also after it was left by an
\* interrupt or an error, the terminal echoes
C17_NoechoRestoresEcho ==
    ~InNoecho => tty.echo

\* the argument line of the line default was called with is empty
NoArguments(line) == parseline(line).args \in { None, << >> }

\* C18: a call of default with a line of one word, a node's name or not,
\* sends no command, reports nothing, changes no node's waiting flag and
\* returns to the loop
C18_OneWordLineDoesNothing ==
    [][ (ev'.type \in { "silent", "unknown", "sendCmd" } /\ NoArguments(ev'.line)) =>
          /\ ev'.type = "silent"
          /\ waiting' = waiting
          /\ cur' = cur /\ proc' = proc
          /\ pc' = "read"
      ]_vars

\* C18 witness: default was called with the name of a node and nothing else
C18_Witness ==
    /\ ev.type = "silent"
    /\ ev.line = H1
    /\ NetsWith(H1) # {}
    /\ pc = "read"

\* C19: a call of default that sends a command sends it to one node, the
\* node the event names: that node becomes the one waitForNode waits for,
\* and the waiting flag of every other node, of every network, is unchanged
C19_OneSendPerDispatch ==
    [][ ev'.type = "sendCmd" =>
          /\ ev'.node \in Nodes
          /\ \A e \in Nodes \ { ev'.node } : waiting'[e] = waiting[e]
          /\ ~ev'.wasWaiting =>
                (waiting'[ev'.node] /\ cur' = ev'.node /\ pc' = "wf_setup")
      ]_vars

\* C19 witness: a command was sent for a first word that names a node in
\* more than one network, and one node is waiting
C19_Witness ==
    /\ ev.type = "sendCmd"
    /\ pc = "wf_setup"
    /\ Cardinality(NetsWith(ev.node[2])) > 1
    /\ { e \in Nodes : waiting[e] } = { ev.node }

====
